---- MODULE Spec2Model ----
(***************************************************************************)
(* EPUB to PDF batch converter (src/main.py): the run of main() over a     *)
(* directory tree, its ThreadPoolExecutor of convert_epub_to_pdf workers,  *)
(* the quarantine directory and the ConversionReport.                      *)
(*                                                                         *)
(* Granularity.  A task (one call of convert_epub_to_pdf) is cut where     *)
(* another thread can observe or change what it works on: between the      *)
(* os.path.exists test and the shutil.move of move_to_quarantine, while     *)
(* subprocess.run is in flight, and while time.sleep(1) sleeps.  Everything *)
(* else a task does between two such points reads and writes only its own   *)
(* file and appends to a report list (list.append is atomic), and is one    *)
(* step.  The report lists are bags: the order of their entries is the      *)
(* order in which workers happened to finish and nothing reads it.          *)
(*                                                                         *)
(* main() waits for the futures in list order and then leaves the `with`    *)
(* block, which joins the pool; no work item is cancelled on the way, so    *)
(* the model lets main proceed once every work item is through.            *)
(***************************************************************************)
EXTENDS Integers, Sequences, FiniteSets, Bags, TLC

\* ------------------------------------------------------------------ bounds
\* Files of the tree are numbered 1..NumFiles in the order os.walk yields them.
NumFiles == 2
\* config["jobs"] ranges over 1..MaxJobs.
MaxJobs == 2
\* config["max_retries"] ranges over 0..MaxRetries.
MaxRetries == 2
\* The wall clock (whole seconds) runs from 0 to MaxClock and then saturates.
MaxClock == 1

\* Archives given to a stand-alone call of is_valid_epub have up to MaxMembers
\* members.
MaxMembers == 3

Files == 1..NumFiles

\* Basenames (stem of "<stem>.epub") of the files of the tree. Each file lies
\* in a directory of its own, so paths differ while basenames coincide: the
\* case move_to_quarantine's collision handling is written for.
Names == {"a"}

\* ------------------------------------------------- archive validator (pure)
container_xml == <<"c","o","n","t","a","i","n","e","r",".","x","m","l">>

dot_opf == <<".","o","p","f">>

UpperCase == <<"A","B","C","D","E","F","G","H","I","J","K","L","M",
               "N","O","P","Q","R","S","T","U","V","W","X","Y","Z">>

LowerCase == <<"a","b","c","d","e","f","g","h","i","j","k","l","m",
               "n","o","p","q","r","s","t","u","v","w","x","y","z">>

\* Characters that occur in member names.
Alphabet ==
    {UpperCase[i] : i \in 1..Len(UpperCase)} \cup
    {LowerCase[i] : i \in 1..Len(LowerCase)} \cup {".", "/", "-", "_"}

\* str.lower() on one character.
LowerChar ==
    [c \in Alphabet |->
        IF \E i \in 1..Len(UpperCase) : UpperCase[i] = c
        THEN LowerCase[CHOOSE i \in 1..Len(UpperCase) : UpperCase[i] = c]
        ELSE c]

\* Mutant of Lower: member names are compared as they are, case and all.
Lower_AsIs(s) == s

\* name.lower()
Lower(s) == [i \in 1..Len(s) |-> LowerChar[s[i]]]

\* Python's `sub in s` on strings.
Contains(sub, s) ==
    \E i \in 1..(Len(s) - Len(sub) + 1) : SubSeq(s, i, i + Len(sub) - 1) = sub

\* any(marker in name.lower() for name in zf.namelist())
AnyMember(marker, namelist) ==
    \E k \in 1..Len(namelist) : Contains(marker, Lower(namelist[k]))

\* is_valid_epub: <<is_valid, error_msg>> for a file whose bytes are `archive`:
\* archive.open is what zipfile.ZipFile(path) does ("zip": opens, "badzip":
\* raises BadZipFile, "oserror": raises another exception), archive.namelist
\* the member names of an archive that opens.
is_valid_epub(archive) ==
    IF archive.open = "badzip" THEN <<FALSE, "Invalid ZIP file">>
    ELSE IF archive.open = "oserror" THEN <<FALSE, "Error checking EPUB">>
    ELSE IF ~AnyMember(container_xml, archive.namelist)
         THEN <<FALSE, "Missing container.xml">>
    ELSE IF ~AnyMember(dot_opf, archive.namelist)
         THEN <<FALSE, "Missing .opf file">>
    ELSE <<TRUE, "">>

\* Member names used by the sample archives.
MimetypeName == <<"m","i","m","e","t","y","p","e">>

ContainerName == <<"M","E","T","A","-","I","N","F","/">> \o container_xml

PackageName == <<"O","E","B","P","S","/","b","o","o","k",".","O","P","F">>

GoodEpub == [open |-> "zip", namelist |-> <<MimetypeName, ContainerName, PackageName>>]

NoContainerEpub == [open |-> "zip", namelist |-> <<MimetypeName, PackageName>>]

NotAZip == [open |-> "badzip", namelist |-> <<>>]

UpperContainerName ==
    <<"M","E","T","A","-","I","N","F","/",
      "C","O","N","T","A","I","N","E","R",".","X","M","L">>

LowerPackageName == <<"c","o","n","t","e","n","t",".","o","p","f">>

\* One member name that carries both markers.
BothMarkersName == container_xml \o dot_opf

\* A member name that comes close to both markers and carries neither.
NearMissName ==
    <<"c","o","n","t","a","i","n","e","r","_","x","m","l","/","o","p","f">>

MemberNames ==
    {MimetypeName, ContainerName, UpperContainerName, PackageName,
     LowerPackageName, BothMarkersName, NearMissName}

\* A file zipfile.ZipFile cannot open for another reason than its format
\* (unreadable, a directory, ...).
Unreadable == [open |-> "oserror", namelist |-> << >>]

\* zf.namelist() of the archives that open: up to MaxMembers member names.
Namelists == UNION {[1..n -> MemberNames] : n \in 0..MaxMembers}

\* The files a stand-alone call of is_valid_epub is given.
Archives ==
    {[open |-> "zip", namelist |-> l] : l \in Namelists}
        \cup {NotAZip, Unreadable}

\* File contents the tree is populated with.
Contents == {GoodEpub, NoContainerEpub}

\* is_valid_epub on each content of the tree.
Verdict == [a \in Contents |-> is_valid_epub(a)]

\* ------------------------------------------------------------------- state
VARIABLES
    startup,                \* [create_config, tool_found, is_dir]: what main() is
                            \* started with (--create-config given, ebook-convert
                            \* on the PATH, the root argument is a directory)
    config,                 \* [jobs, force_overwrite, max_retries] (load_config)
    now,                    \* wall clock, whole seconds
    orig_exists,            \* orig_exists[f]: file f is at its original path
    content,                \* content[f]: the bytes of file f
    basename,               \* basename[f]: os.path.basename of file f (stem)
    pdf_exists,             \* pdf_exists[f]: the output PDF of f is on disk
    quarantine_dir_exists,  \* the quarantine directory is on disk
    quarantine,             \* quarantine[p] = f: path p of the quarantine dir holds f
    pc_main,                \* position of main()
    exit_code,              \* << >> until main() returns, then <<its return value>>
    epub_files,             \* the list find_epubs returned (a set of files)
    pc,                     \* pc[f]: position of the task of file f
    attempt,                \* attempt[f]: loop variable of the retry loop
    start_time,             \* start_time[f]
    last_error,             \* last_error[f]
    quarantine_path,        \* quarantine_path[f] in move_to_quarantine
    corrupted_files,        \* report.corrupted_files      (bag of <<f, error>>)
    failed_conversions,     \* report.failed_conversions   (bag of <<f, error>>)
    successful_conversions, \* report.successful_conversions (bag of <<f, time>>)
    report_file,            \* what save() wrote, one element per call
    tool_calls,             \* tool_calls[f]: ebook-convert invocations for f
    tool_began,             \* tool_began[f]: clock at the latest invocation for f
    tool_result,            \* tool_result[f]: outcomes of the invocations for f
    epub_path,              \* the file a stand-alone call of is_valid_epub is given
    validation              \* << >> until that call returns, then what it returned

vars == <<startup, config, epub_path, validation, now, orig_exists, content, basename, pdf_exists,
          quarantine_dir_exists, quarantine, pc_main, exit_code, epub_files,
          pc, attempt, start_time, last_error, quarantine_path,
          corrupted_files, failed_conversions, successful_conversions,
          report_file, tool_calls, tool_began, tool_result>>

fs_vars == <<orig_exists, content, basename, pdf_exists,
             quarantine_dir_exists, quarantine>>

report_vars == <<corrupted_files, failed_conversions, successful_conversions>>

local_vars == <<attempt, start_time, last_error, quarantine_path>>

tool_vars == <<tool_calls, tool_began, tool_result>>

main_vars == <<pc_main, exit_code, epub_files, report_file>>

validator_vars == <<epub_path, validation>>

\* Unsuffixed and timestamp-suffixed paths inside the quarantine directory.
PlainPath(name) == <<name>>

StampedPath(name, stamp) == <<name, stamp>>

NoPath == <<>>

NoError == <<"", 0>>

\* convert_epub_to_pdf is left (by return or by an exception): its locals are
\* gone and the pool thread is free again.
Leave(f, how) ==
    /\ pc' = [pc EXCEPT ![f] = how]
    /\ attempt' = [attempt EXCEPT ![f] = 0]
    /\ start_time' = [start_time EXCEPT ![f] = 0]
    /\ last_error' = [last_error EXCEPT ![f] = NoError]
    /\ quarantine_path' = [quarantine_path EXCEPT ![f] = NoPath]
    /\ tool_began' = [tool_began EXCEPT ![f] = 0]

\* A task is executing convert_epub_to_pdf on a pool thread.
Running(f) == pc[f] \in {"move", "tool", "sleep"}

Finished(f) == pc[f] \in {"returned", "raised"}

RunningTasks == {f \in Files : Running(f)}

\* ------------------------------------------------------------------- Init
\* Nothing has run yet: the clock is at 0, the quarantine directory is absent,
\* main() is at its start, no task exists, the report lists are empty.
NotStarted ==
    /\ now = 0
    /\ quarantine_dir_exists = FALSE
    /\ quarantine = << >>
    /\ pc_main = "start"
    /\ exit_code = << >>
    /\ epub_files = {}
    /\ pc = [f \in Files |-> "none"]
    /\ attempt = [f \in Files |-> 0]
    /\ start_time = [f \in Files |-> 0]
    /\ last_error = [f \in Files |-> NoError]
    /\ quarantine_path = [f \in Files |-> NoPath]
    /\ corrupted_files = EmptyBag
    /\ failed_conversions = EmptyBag
    /\ successful_conversions = EmptyBag
    /\ report_file = << >>
    /\ tool_calls = [f \in Files |-> 0]
    /\ tool_began = [f \in Files |-> 0]
    /\ tool_result = [f \in Files |-> << >>]

\* main() is started with or without --create-config, with or without the tool
\* on the PATH, on a root that is a directory or not. The tree holds the files
\* 1..n (none when the root is no directory), each with some content, basename
\* and possibly a PDF beside it from an earlier run; the quarantine directory is
\* absent.
Init ==
    /\ startup \in [create_config : BOOLEAN, tool_found : BOOLEAN,
                    is_dir : BOOLEAN]
    /\ config \in [jobs : 1..MaxJobs, force_overwrite : BOOLEAN,
                   max_retries : 0..MaxRetries]
    /\ epub_path = GoodEpub
    /\ validation = << >>
    /\ \E n \in 0..NumFiles :
        /\ ~startup.is_dir => n = 0
        /\ orig_exists = [f \in Files |-> f <= n]
        /\ content \in [Files -> Contents]
        /\ basename \in [Files -> Names]
        /\ pdf_exists \in [Files -> BOOLEAN]
        /\ \A f \in Files : f > n =>
            /\ content[f] = GoodEpub
            /\ basename[f] = "a"
            /\ pdf_exists[f] = FALSE
    /\ NotStarted

\* --- is_valid_epub called on its own
\* The function is given any of the Archives; main() is not run.
InitValidator ==
    /\ epub_path \in Archives
    /\ validation = << >>
    /\ startup = [create_config |-> FALSE, tool_found |-> TRUE, is_dir |-> TRUE]
    /\ config = [jobs |-> 1, force_overwrite |-> FALSE, max_retries |-> 1]
    /\ orig_exists = [f \in Files |-> FALSE]
    /\ content = [f \in Files |-> GoodEpub]
    /\ basename = [f \in Files |-> "a"]
    /\ pdf_exists = [f \in Files |-> FALSE]
    /\ NotStarted

\* The call returns what is_valid_epub computes for the file.
Validate ==
    /\ validation = << >>
    /\ validation' = is_valid_epub(epub_path)
    /\ UNCHANGED <<startup, config, epub_path, now, fs_vars, main_vars, pc,
                   local_vars, tool_vars, report_vars>>

NextValidator == Validate

SpecValidator == InitValidator /\ [][NextValidator]_vars

\* ------------------------------------------------------- ConversionReport
\* Each add_* is one list.append on a list shared by the pool threads, which
\* CPython executes as one indivisible operation: one step of the calling task.
add_corrupted(f, error) == corrupted_files (+) SetToBag({<<f, error>>})

\* Mutant of add_failed: the list is replaced by one holding the new entry only
\* (what a lost update leaves behind).
add_failed_LosesEarlier(f, error) == SetToBag({<<f, error>>})

add_failed(f, error) == failed_conversions (+) SetToBag({<<f, error>>})

add_success(f, time_taken) == successful_conversions (+) SetToBag({<<f, time_taken>>})

\* The three lists as save() renders them.
Rendered ==
    [corrupted |-> corrupted_files,
     failed |-> failed_conversions,
     successful |-> successful_conversions]

\* ------------------------------------------------------------ thread pool
\* Mutant of PoolHasFreeSlot: a pool that lets one thread too many run.
PoolHasFreeSlot_OneTooMany == Cardinality(RunningTasks) <= config.jobs

\* ThreadPoolExecutor(max_workers=num_jobs): a queued work item is taken up
\* only by one of the num_jobs pool threads, so only while fewer than num_jobs
\* work items are executing.
PoolHasFreeSlot == Cardinality(RunningTasks) < config.jobs

\* The executor's work queue is FIFO in submission order.
NextInQueue(f) ==
    /\ pc[f] = "pending"
    /\ \A g \in Files : pc[g] = "pending" => f <= g

Dequeue(f) ==
    /\ pc_main = "waiting"
    /\ NextInQueue(f)
    /\ PoolHasFreeSlot

\* -------------------------------------------------- convert_epub_to_pdf
\* Mutant of ShouldSkip: the overwrite flag is not looked at.
ShouldSkip_IgnoresOverwrite(f) == pdf_exists[f]

\* `if os.path.exists(pdf_file) and not overwrite`
ShouldSkip(f) == pdf_exists[f] /\ ~config.force_overwrite

\* `for attempt in range(max_retries)` has an iteration with loop variable a.
LoopHasIteration(a) == a < config.max_retries

\* Mutant of MoreAttempts: the off-by-one `attempt < max_retries`.
MoreAttempts_OneTooMany(a) == a < config.max_retries

\* `if attempt < max_retries - 1` after a CalledProcessError.
MoreAttempts(a) == a < config.max_retries - 1

\* elapsed_time = time.time() - start_time
ElapsedTime(f) == now - start_time[f]

\* What the tool prints for its n-th invocation on a file (e.stdout/e.stderr).
ToolOutput(n) == n

\* last_error after a CalledProcessError.
ConversionError(f) == <<"Conversion error", ToolOutput(tool_calls[f])>>

\* last_error after any other exception of the attempt.
UnexpectedError(f) == <<"Unexpected error", 0>>

\* Mutant of StartTime: the clock is read once, before the first attempt.
StartTime_BeforeLoop(f, a) == IF a = 0 THEN now ELSE start_time[f]

\* start_time of the attempt with loop variable a, begun at clock `now`.
StartTime(f, a) == now

\* The steps of one loop iteration up to the start of subprocess.run.
Invoke(f, a) ==
    /\ pc' = [pc EXCEPT ![f] = "tool"]
    /\ attempt' = [attempt EXCEPT ![f] = a]
    /\ start_time' = [start_time EXCEPT ![f] = StartTime(f, a)]
    /\ tool_calls' = [tool_calls EXCEPT ![f] = @ + 1]
    /\ tool_began' = [tool_began EXCEPT ![f] = now]
    /\ UNCHANGED <<last_error, quarantine_path, tool_result>>

\* Mutant of Retries: every failed attempt is retried alike.
Retries_AnyFailure(outcome, a) == MoreAttempts(a)

\* Whether the except branch that handles `outcome` retries (sleeps and loops)
\* rather than recording the failure and returning.
Retries(outcome, a) ==
    /\ outcome = "nonzero"
    /\ MoreAttempts(a)

\* The error recorded by the except branch that handles `outcome`.
ErrorOf(outcome, f) ==
    IF outcome = "nonzero" THEN ConversionError(f) ELSE UnexpectedError(f)

\* Mutant of Branch: the PDF is looked for before the file is validated.
Branch_SkipBeforeValidation(f) ==
    IF ~orig_exists[f] THEN "not found"
    ELSE IF ShouldSkip(f) THEN "skip"
    ELSE IF ~Verdict[content[f]][1] THEN "invalid"
    ELSE "convert"

\* Mutant of Branch: the source file is not looked for.
Branch_NoExistsCheck(f) ==
    IF ~Verdict[content[f]][1] THEN "invalid"
    ELSE IF ShouldSkip(f) THEN "skip"
    ELSE "convert"

\* The early returns of convert_epub_to_pdf in the order of the code: the
\* os.path.exists test of the source, then is_valid_epub, then the test for an
\* existing PDF; what is left goes to the retry loop.
Branch(f) ==
    IF ~orig_exists[f] THEN "not found"
    ELSE IF ~Verdict[content[f]][1] THEN "invalid"
    ELSE IF ShouldSkip(f) THEN "skip"
    ELSE "convert"

\* A pool thread takes the task of f; the file is gone: "File not found".
FileNotFound(f) ==
    /\ Dequeue(f)
    /\ Branch(f) = "not found"
    /\ failed_conversions' = add_failed(f, <<"File not found", 0>>)
    /\ Leave(f, "returned")
    /\ UNCHANGED <<config, startup, validator_vars, now, fs_vars, main_vars, tool_calls, tool_result,
                   corrupted_files, successful_conversions>>

\* The validator rejects f: add_corrupted, then move_to_quarantine up to the
\* choice of quarantine_path (makedirs, the exists test, the timestamp).
Rejected(f) ==
    /\ Dequeue(f)
    /\ Branch(f) = "invalid"
    /\ corrupted_files' = add_corrupted(f, Verdict[content[f]][2])
    /\ quarantine_dir_exists' = TRUE
    /\ quarantine_path' = [quarantine_path EXCEPT ![f] =
            IF PlainPath(basename[f]) \in DOMAIN quarantine
            THEN StampedPath(basename[f], now)
            ELSE PlainPath(basename[f])]
    /\ pc' = [pc EXCEPT ![f] = "move"]
    /\ UNCHANGED <<config, startup, validator_vars, now, orig_exists, content, basename, pdf_exists,
                   quarantine, main_vars, attempt, start_time, last_error,
                   tool_vars, failed_conversions, successful_conversions>>

\* Mutant of SourceAfterMove: the file is copied, the source stays.
SourceAfterMove_Copied(f) == orig_exists

\* Mutant of SourceAfterMove: the move takes the other files along.
SourceAfterMove_TakesAll(f) == [g \in Files |-> FALSE]

\* What is at the original paths after shutil.move of f: f is there no more.
SourceAfterMove(f) == [orig_exists EXCEPT ![f] = FALSE]

\* shutil.move(file_path, quarantine_path) moves the file (replacing whatever
\* is at quarantine_path) and move_to_quarantine returns.
Moved(f) ==
    /\ pc[f] = "move"
    /\ orig_exists[f]
    /\ quarantine' = [p \in DOMAIN quarantine \cup {quarantine_path[f]} |->
            IF p = quarantine_path[f] THEN f ELSE quarantine[p]]
    /\ orig_exists' = SourceAfterMove(f)
    /\ Leave(f, "returned")
    /\ UNCHANGED <<config, startup, validator_vars, now, content, basename, pdf_exists,
                   quarantine_dir_exists, main_vars, tool_calls, tool_result,
                   report_vars>>

\* shutil.move raises (permissions, cross-device, ...): nothing in
\* convert_epub_to_pdf catches it, the exception ends the work item.
MoveRaises(f) ==
    /\ pc[f] = "move"
    /\ Leave(f, "raised")
    /\ UNCHANGED <<config, startup, validator_vars, now, fs_vars, main_vars, tool_calls, tool_result,
                   report_vars>>

\* f is valid, its PDF exists and overwrite is off: recorded with time 0.
Skipped(f) ==
    /\ Dequeue(f)
    /\ Branch(f) = "skip"
    /\ successful_conversions' = add_success(f, 0)
    /\ Leave(f, "returned")
    /\ UNCHANGED <<config, startup, validator_vars, now, fs_vars, main_vars, tool_calls, tool_result,
                   corrupted_files, failed_conversions>>

\* f is valid and not skipped, and range(max_retries) is empty: the function
\* falls off its end (returns None) without touching the report.
NoAttempt(f) ==
    /\ Dequeue(f)
    /\ Branch(f) = "convert"
    /\ ~LoopHasIteration(0)
    /\ Leave(f, "returned")
    /\ UNCHANGED <<config, startup, validator_vars, now, fs_vars, main_vars, tool_calls, tool_result,
                   report_vars>>

\* f is valid and not skipped: the first ebook-convert process is started.
FirstAttempt(f) ==
    /\ Dequeue(f)
    /\ Branch(f) = "convert"
    /\ LoopHasIteration(0)
    /\ Invoke(f, 0)
    /\ UNCHANGED <<config, startup, validator_vars, now, fs_vars, main_vars, report_vars>>

\* subprocess.run returns with exit status 0.
ToolSucceeds(f) ==
    /\ pc[f] = "tool"
    /\ tool_result' = [tool_result EXCEPT ![f] = Append(@, "ok")]
    /\ successful_conversions' = add_success(f, ElapsedTime(f))
    /\ pdf_exists' = [pdf_exists EXCEPT ![f] = TRUE]
    /\ Leave(f, "returned")
    /\ UNCHANGED <<config, startup, validator_vars, now, orig_exists, content, basename,
                   quarantine_dir_exists, quarantine, main_vars, tool_calls,
                   corrupted_files, failed_conversions>>

\* subprocess.run raises: CalledProcessError for a nonzero exit status
\* ("nonzero"), or anything else ("exception": the process cannot be started,
\* its output cannot be decoded, ...).
ToolFails(f, outcome) ==
    /\ pc[f] = "tool"
    /\ tool_result' = [tool_result EXCEPT ![f] = Append(@, outcome)]
    /\ IF Retries(outcome, attempt[f])
       THEN /\ pc' = [pc EXCEPT ![f] = "sleep"]
            /\ last_error' = [last_error EXCEPT ![f] = ErrorOf(outcome, f)]
            /\ tool_began' = [tool_began EXCEPT ![f] = 0]
            /\ UNCHANGED <<attempt, start_time, quarantine_path,
                           failed_conversions>>
       ELSE /\ failed_conversions' = add_failed(f, ErrorOf(outcome, f))
            /\ Leave(f, "returned")
    /\ UNCHANGED <<config, startup, validator_vars, now, fs_vars, main_vars, tool_calls,
                   corrupted_files, successful_conversions>>

\* time.sleep(1) returns: the next iteration starts ebook-convert again (were
\* the loop exhausted, the function would fall off its end instead).
Retry(f) ==
    /\ pc[f] = "sleep"
    /\ IF LoopHasIteration(attempt[f] + 1)
       THEN Invoke(f, attempt[f] + 1)
       ELSE /\ Leave(f, "returned")
            /\ UNCHANGED <<tool_calls, tool_result>>
    /\ UNCHANGED <<config, startup, validator_vars, now, fs_vars, main_vars, report_vars>>

\* ------------------------------------------------------------ environment
\* A second passes while some task is executing.
Tick ==
    /\ now < MaxClock
    /\ RunningTasks # {}
    /\ now' = now + 1
    /\ UNCHANGED <<config, startup, validator_vars, fs_vars, main_vars, pc, local_vars, tool_vars,
                   report_vars>>

\* Something outside the program removes a discovered file after discovery.
\* (Only the file's own task ever reads its path, first thing when it is taken
\* up, so a removal at any later moment before that is the same to the run.)
ExternalRemove(f) ==
    /\ pc_main = "found"
    /\ f \in epub_files
    /\ orig_exists[f]
    /\ orig_exists' = [orig_exists EXCEPT ![f] = FALSE]
    /\ UNCHANGED <<config, startup, validator_vars, now, content, basename, pdf_exists,
                   quarantine_dir_exists, quarantine, main_vars, pc,
                   local_vars, tool_vars, report_vars>>

\* ------------------------------------------------------------------ main
\* os.walk over the tree: the *.epub files that exist.
find_epubs == {f \in Files : orig_exists[f]}

Return(code) ==
    /\ pc_main' = "exited"
    /\ exit_code' = <<code>>

\* Mutant of StartupChecksPass: the root argument is not looked at.
StartupChecksPass_ToolOnly == startup.tool_found

\* `if not shutil.which("ebook-convert"): return 1` and
\* `if not os.path.isdir(root_directory): return 1` both let main go on.
StartupChecksPass ==
    /\ startup.tool_found
    /\ startup.is_dir

\* --create-config: the template is written and main returns 0.
MainCreateConfig ==
    /\ pc_main = "start"
    /\ startup.create_config
    /\ Return(0)
    /\ UNCHANGED <<config, startup, validator_vars, now, fs_vars, epub_files, report_file, pc,
                   local_vars, tool_vars, report_vars>>

\* shutil.which("ebook-convert") finds nothing, or the root is no directory.
MainEnvironmentError ==
    /\ pc_main = "start"
    /\ ~startup.create_config
    /\ ~StartupChecksPass
    /\ Return(1)
    /\ UNCHANGED <<config, startup, validator_vars, now, fs_vars, epub_files, report_file, pc,
                   local_vars, tool_vars, report_vars>>

\* The startup checks pass and find_epubs runs.
MainDiscover ==
    /\ pc_main = "start"
    /\ ~startup.create_config
    /\ StartupChecksPass
    /\ epub_files' = find_epubs
    /\ IF find_epubs = {}
       THEN Return(0)
       ELSE /\ pc_main' = "found"
            /\ UNCHANGED exit_code
    /\ UNCHANGED <<config, startup, validator_vars, now, fs_vars, report_file, pc, local_vars,
                   tool_vars, report_vars>>

\* The submit loop: one work item per discovered file, in list order.
MainSubmit ==
    /\ pc_main = "found"
    /\ pc' = [f \in Files |-> IF f \in epub_files THEN "pending" ELSE "none"]
    /\ pc_main' = "waiting"
    /\ UNCHANGED <<config, startup, validator_vars, now, fs_vars, exit_code, epub_files, report_file,
                   local_vars, tool_vars, report_vars>>

\* The state in which report.save() may be reached: every future.result()
\* returned and the executor's __exit__ (shutdown(wait=True)) is through.
AllJoined == \A f \in epub_files : Finished(f)

\* The result loop and the end of the `with` block, no work item raised.
MainJoin ==
    /\ pc_main = "waiting"
    /\ AllJoined
    /\ \A f \in epub_files : pc[f] = "returned"
    /\ pc_main' = "joined"
    /\ UNCHANGED <<config, startup, validator_vars, now, fs_vars, exit_code, epub_files, report_file,
                   pc, local_vars, tool_vars, report_vars>>

\* future.result() re-raises the exception of a work item: the `with` block
\* waits for the pool threads and the exception leaves main().
MainJoinRaises ==
    /\ pc_main = "waiting"
    /\ \A f \in epub_files : Finished(f)
    /\ \E f \in epub_files : pc[f] = "raised"
    /\ pc_main' = "crashed"
    /\ UNCHANGED <<config, startup, validator_vars, now, fs_vars, exit_code, epub_files, report_file,
                   pc, local_vars, tool_vars, report_vars>>

\* report.save() and `return 0`.
MainSave ==
    /\ pc_main = "joined"
    /\ report_file' = Append(report_file, Rendered)
    /\ Return(0)
    /\ UNCHANGED <<config, startup, validator_vars, now, fs_vars, epub_files, pc, local_vars,
                   tool_vars, report_vars>>

Next ==
    \/ MainCreateConfig
    \/ MainEnvironmentError
    \/ MainDiscover
    \/ MainSubmit
    \/ MainJoin
    \/ MainJoinRaises
    \/ MainSave
    \/ Tick
    \/ \E f \in Files :
        \/ ExternalRemove(f)
        \/ FileNotFound(f)
        \/ Rejected(f)
        \/ Moved(f)
        \/ MoveRaises(f)
        \/ Skipped(f)
        \/ NoAttempt(f)
        \/ FirstAttempt(f)
        \/ ToolSucceeds(f)
        \/ ToolFails(f, "nonzero")
        \/ ToolFails(f, "exception")
        \/ Retry(f)

Spec == Init /\ [][Next]_vars

\* --- scheduling
\* A step of the task of f on a pool thread.
TaskStep(f) ==
    \/ FileNotFound(f)
    \/ Rejected(f)
    \/ Moved(f)
    \/ MoveRaises(f)
    \/ Skipped(f)
    \/ NoAttempt(f)
    \/ FirstAttempt(f)
    \/ ToolSucceeds(f)
    \/ ToolFails(f, "nonzero")
    \/ ToolFails(f, "exception")
    \/ Retry(f)

\* A step of the main thread.
MainStep ==
    \/ MainCreateConfig
    \/ MainEnvironmentError
    \/ MainDiscover
    \/ MainSubmit
    \/ MainJoin
    \/ MainJoinRaises
    \/ MainSave

\* Threads are scheduled fairly and every call a thread waits in returns
\* (subprocess.run, time.sleep, shutil.move, Future.result): a thread that
\* can take a step takes one. Nothing is assumed of the clock or of what
\* happens to the files from outside.
Fairness ==
    /\ WF_vars(MainStep)
    /\ \A f \in Files : WF_vars(TaskStep(f))

FairSpec == Spec /\ Fairness

\* ======================================================================
\* Properties
\* ======================================================================
\* Number of entries of a report list that are about file f.
EntriesFor(bag, f) ==
    BagCardinality([e \in {x \in BagToSet(bag) : x[1] = f} |-> bag[e]])

\* Number of entries about f over the three lists.
Outcomes(f) ==
    EntriesFor(successful_conversions, f) + EntriesFor(failed_conversions, f)
        + EntriesFor(corrupted_files, f)

Last(seq) == seq[Len(seq)]

Valid(f) == Verdict[content[f]][1]

\* f currently lies somewhere in the quarantine directory.
InQuarantine(f) == \E p \in DOMAIN quarantine : quarantine[p] = f

\* Scheduling was reached and every pool thread is through with its work.
AllWorkersFinished ==
    /\ epub_files # {}
    /\ \A f \in epub_files : Finished(f)

\* C1: once all workers have finished, every discovered file has exactly one
\* entry in exactly one of the three report lists, so the lists together hold
\* as many entries as files were discovered.
C1_ExactlyOneOutcome ==
    AllWorkersFinished =>
        /\ \A f \in epub_files : Outcomes(f) = 1
        /\ BagCardinality(successful_conversions)
            + BagCardinality(failed_conversions)
            + BagCardinality(corrupted_files) = Cardinality(epub_files)

\* C1, restricted to runs with max_retries >= 1 (what the code does achieve).
C1_ExactlyOneOutcomeWithRetries ==
    config.max_retries >= 1 => C1_ExactlyOneOutcome

\* C2: at every moment at most config.jobs tasks are executing
\* convert_epub_to_pdf (sleeping in the retry backoff included), and so at
\* most config.jobs tool invocations are in flight, however many files there are.
C2_BoundedPool ==
    /\ Cardinality(RunningTasks) <= config.jobs
    /\ Cardinality({f \in Files : pc[f] = "tool"}) <= config.jobs

\* C2 witness: the pool is full, one of its tasks sleeps in the backoff and
\* another file still waits in the queue.
C2_Witness ==
    /\ Cardinality(RunningTasks) = config.jobs
    /\ \E f \in Files : pc[f] = "sleep"
    /\ \E f \in Files : pc[f] = "pending"

\* C3: a worker that raises an unexpected error has its task recorded as a
\* failed conversion, and main() is not brought down by it.
C3_WorkerErrorContained ==
    /\ pc_main # "crashed"
    /\ \A f \in epub_files :
        pc[f] = "raised" => EntriesFor(failed_conversions, f) = 1

\* Every invocation of the tool for f so far ended with a nonzero exit.
AlwaysNonzero(f) ==
    /\ tool_result[f] # << >>
    /\ \A i \in 1..Len(tool_result[f]) : tool_result[f][i] = "nonzero"

\* C4: for max_retries >= 1, a valid file whose tool call exits nonzero on
\* every attempt is never recorded as a success, the tool is never invoked more
\* than max_retries times for it, and when its task is through the tool was
\* invoked exactly max_retries times and the failed list holds exactly one
\* entry for it, with the error text (tool output) of the last attempt.
C4_AlwaysFailingTool ==
    \A f \in epub_files :
        (config.max_retries >= 1 /\ AlwaysNonzero(f)) =>
            /\ tool_calls[f] <= config.max_retries
            /\ EntriesFor(successful_conversions, f) = 0
            /\ EntriesFor(corrupted_files, f) = 0
            /\ IF Finished(f)
               THEN /\ pc[f] = "returned"
                    /\ tool_calls[f] = config.max_retries
                    /\ EntriesFor(failed_conversions, f) = 1
                    /\ BagIn(<<f, <<"Conversion error",
                                    ToolOutput(config.max_retries)>>>>,
                             failed_conversions)
               ELSE EntriesFor(failed_conversions, f) = 0

\* C4 witness: a task is through after two nonzero exits with max_retries = 2.
C4_Witness ==
    \E f \in epub_files :
        /\ config.max_retries = 2
        /\ tool_result[f] = <<"nonzero", "nonzero">>
        /\ pc[f] = "returned"

\* C5 as claimed: an attempt that raised something other than a nonzero exit is
\* retried like a nonzero exit, so a task whose tool was invoked is recorded as
\* failed only after max_retries attempts have been used.
C5_ExceptionRetried ==
    \A f \in epub_files :
        (tool_calls[f] >= 1 /\ EntriesFor(failed_conversions, f) >= 1) =>
            tool_calls[f] = config.max_retries

\* C5 as amended: an attempt whose invocation raised something other than a
\* nonzero exit is not retried: the task is through at once, recorded exactly
\* once as failed with the "Unexpected error" text, however many attempts are
\* left; only a nonzero exit with attempts left leads to the backoff and a retry.
C5_ExceptionNotRetried ==
    \A f \in epub_files :
        /\ (tool_result[f] # << >> /\ Last(tool_result[f]) = "exception") =>
            /\ pc[f] = "returned"
            /\ tool_calls[f] = Len(tool_result[f])
            /\ tool_calls[f] <= config.max_retries
            /\ EntriesFor(failed_conversions, f) = 1
            /\ BagIn(<<f, <<"Unexpected error", 0>>>>, failed_conversions)
            /\ EntriesFor(successful_conversions, f) = 0
        /\ (AlwaysNonzero(f) /\ Len(tool_result[f]) < config.max_retries) =>
            /\ pc[f] \in {"sleep", "tool"}
            /\ EntriesFor(failed_conversions, f) = 0

\* C5 witness: the first attempt raised, attempts were left, the task is through.
C5_Witness ==
    \E f \in epub_files :
        /\ config.max_retries = 2
        /\ tool_result[f] = <<"exception">>
        /\ pc[f] = "returned"
        /\ BagIn(<<f, <<"Unexpected error", 0>>>>, failed_conversions)

\* The tool was invoked for f and its latest invocation exited with status 0.
SucceededAtLast(f) ==
    /\ tool_result[f] # << >>
    /\ Last(tool_result[f]) = "ok"

\* C6, the outcome: a file whose tool call succeeds on attempt k, after k-1
\* failed attempts, has had the tool invoked exactly k <= max_retries times (the
\* task is through, so never again), and has exactly one entry in the
\* successful list and none in the failed list.
C6_Outcome ==
    \A f \in epub_files :
        SucceededAtLast(f) =>
            /\ pc[f] = "returned"
            /\ tool_calls[f] = Len(tool_result[f])
            /\ tool_calls[f] <= config.max_retries
            /\ \A i \in 1..(Len(tool_result[f]) - 1) : tool_result[f][i] = "nonzero"
            /\ EntriesFor(successful_conversions, f) = 1
            /\ EntriesFor(failed_conversions, f) = 0
            /\ EntriesFor(corrupted_files, f) = 0

\* C6, the time: the entry added when an invocation returns with status 0
\* carries the time that passed since that invocation began, not since an
\* earlier attempt.
C6_Elapsed ==
    \A f \in Files :
        (pc[f] = "tool" /\ pc'[f] = "returned" /\ SucceededAtLast(f)') =>
            successful_conversions' =
                successful_conversions (+) SetToBag({<<f, now - tool_began[f]>>})

\* C6: a valid file whose tool call fails on attempts 1..k-1 and succeeds on
\* attempt k <= max_retries gets exactly k invocations and exactly one entry,
\* in the successful list, with the elapsed time of the successful attempt only.
C6_RetryThenSuccess == []C6_Outcome /\ [][C6_Elapsed]_vars

\* C6 witness: the first attempt took a second and failed, the second one
\* succeeded at once, and the entry says 0.
C6_Witness ==
    \E f \in epub_files :
        /\ tool_result[f] = <<"nonzero", "ok">>
        /\ pc[f] = "returned"
        /\ now = 1
        /\ BagIn(<<f, 0>>, successful_conversions)

\* C7, the step that takes up a valid, existing file with max_retries >= 1:
\* with the PDF there and overwrite off it returns at once, no tool invoked,
\* recorded as a success with time 0; with the PDF there and overwrite on the
\* tool is invoked.
C7_TakeUp ==
    \A f \in Files :
        (/\ pc[f] = "pending"
         /\ pc'[f] # "pending"
         /\ orig_exists[f]
         /\ Valid(f)
         /\ pdf_exists[f]
         /\ config.max_retries >= 1) =>
            IF ~config.force_overwrite
            THEN /\ pc'[f] = "returned"
                 /\ tool_calls'[f] = 0
                 /\ successful_conversions' =
                        successful_conversions (+) SetToBag({<<f, 0>>})
                 /\ UNCHANGED <<failed_conversions, corrupted_files>>
            ELSE /\ pc'[f] = "tool"
                 /\ tool_calls'[f] = 1

\* C7, afterwards: a task that is through stays so, and the tool is not
\* invoked for it any more.
C7_Through ==
    \A f \in Files :
        Finished(f) => (pc'[f] = pc[f] /\ tool_calls'[f] = tool_calls[f])

\* C7: for a valid, existing file and max_retries >= 1, an existing PDF with
\* overwrite off means no tool invocation for the task, ever, and a success
\* entry with elapsed time 0; with overwrite on the tool is invoked although
\* the PDF exists.
C7_SkipOrOverwrite == [][C7_TakeUp /\ C7_Through]_vars

\* C7 witness: a skipped task.
C7_Witness ==
    \E f \in epub_files :
        /\ config.max_retries >= 1
        /\ ~config.force_overwrite
        /\ Valid(f)
        /\ pdf_exists[f]
        /\ pc[f] = "returned"
        /\ tool_calls[f] = 0
        /\ BagIn(<<f, 0>>, successful_conversions)

\* C7, second witness: overwrite is on and the tool runs although the PDF exists.
C7_WitnessOverwrite ==
    \E f \in epub_files :
        /\ config.force_overwrite
        /\ pdf_exists[f]
        /\ pc[f] = "tool"

\* The validator was consulted for f and rejected it.
WasRejected(f) ==
    /\ pc[f] \in {"move", "returned", "raised"}
    /\ ~Valid(f)
    /\ EntriesFor(failed_conversions, f) = 0

\* C8, at all times: for a file the validator rejected the tool is never
\* invoked, the corrupted list holds exactly one entry for it, with the
\* validator's error text, the other lists hold none, and once the task has
\* returned the file is no longer at its original path.
C8_Recorded ==
    \A f \in epub_files :
        WasRejected(f) =>
            /\ tool_calls[f] = 0
            /\ EntriesFor(corrupted_files, f) = 1
            /\ BagIn(<<f, Verdict[content[f]][2]>>, corrupted_files)
            /\ EntriesFor(successful_conversions, f) = 0
            /\ pc[f] = "returned" => ~orig_exists[f]

\* C8, the step in which the task of a rejected file returns: the file is then
\* in the quarantine directory and not at its original path.
C8_Quarantined ==
    \A f \in Files :
        (pc[f] = "move" /\ pc'[f] = "returned") =>
            /\ ~orig_exists'[f]
            /\ InQuarantine(f)'
            /\ quarantine_dir_exists'

\* C8: a file the validator rejects never reaches the tool, is recorded in the
\* corrupted list with the validator's error text, and when its task returns it
\* has been moved: gone from its original path, present in the quarantine
\* directory.
C8_RejectedIsQuarantined == []C8_Recorded /\ [][C8_Quarantined]_vars

\* C8 witness: the task of a rejected file has returned and the file is in
\* the quarantine directory.
C8_Witness ==
    \E f \in epub_files :
        /\ WasRejected(f)
        /\ pc[f] = "returned"
        /\ InQuarantine(f)
        /\ BagIn(<<f, "Missing container.xml">>, corrupted_files)

\* C9: no file moved into the quarantine directory is ever overwritten or
\* lost: every rejected file whose move went through is in the quarantine
\* directory (each under a path of its own), and the directory exists.
C9_NothingLostInQuarantine ==
    \A f \in epub_files :
        (WasRejected(f) /\ pc[f] = "returned") =>
            /\ InQuarantine(f)
            /\ quarantine_dir_exists

\* C10, the part about when: save() has run at most once, and only with every
\* submitted task through; what it wrote is what the lists hold.
C10_SavedOnceAfterJoin ==
    /\ Len(report_file) <= 1
    /\ Len(report_file) = 1 =>
        /\ AllWorkersFinished
        /\ report_file[1] = Rendered

\* C10: the report is written at most once, only after every submitted task
\* has finished, and what is written contains the outcome of every submitted
\* task.
C10_ReportOnceWithEveryOutcome ==
    /\ C10_SavedOnceAfterJoin
    /\ Len(report_file) = 1 =>
        \A f \in epub_files :
            EntriesFor(report_file[1].successful, f)
                + EntriesFor(report_file[1].failed, f)
                + EntriesFor(report_file[1].corrupted, f) = 1

\* C11, the part about the file and the other workers: a file whose move into
\* quarantine failed has exactly one entry, in the corrupted list, is still at
\* its original path and not in the quarantine directory; and once all workers
\* have finished every other task has its entry (for max_retries >= 1).
C11_FileKeptOthersRecorded ==
    \A f \in epub_files :
        pc[f] = "raised" =>
            /\ EntriesFor(corrupted_files, f) = 1
            /\ Outcomes(f) = 1
            /\ orig_exists[f]
            /\ ~InQuarantine(f)
            /\ (AllWorkersFinished /\ config.max_retries >= 1) =>
                    \A g \in epub_files : Outcomes(g) = 1

\* C11: a failed move into quarantine is confined to its file: the file is in
\* the corrupted list and still at its original path, and the run is not
\* brought down by it: main() goes on to save the report.
C11_MoveFailureConfined ==
    \A f \in epub_files :
        pc[f] = "raised" =>
            /\ EntriesFor(corrupted_files, f) = 1
            /\ orig_exists[f]
            /\ pc_main \in {"waiting", "joined", "exited"}
            /\ pc_main = "exited" => Len(report_file) = 1

\* The entries of the three lists together.
TotalEntries ==
    BagCardinality(successful_conversions) + BagCardinality(failed_conversions)
        + BagCardinality(corrupted_files)

\* C12, one step of any worker, whatever the other workers are doing: every
\* entry the lists held is still there, a step adds at most one entry, and the
\* entry added is one about the task that took the step.
C12_NoLostUpdate ==
    /\ successful_conversions \sqsubseteq successful_conversions'
    /\ failed_conversions \sqsubseteq failed_conversions'
    /\ corrupted_files \sqsubseteq corrupted_files'
    /\ TotalEntries' \in {TotalEntries, TotalEntries + 1}
    /\ TotalEntries' = TotalEntries + 1 =>
            \E f \in epub_files :
                /\ pc[f] # pc'[f]
                /\ Outcomes(f)' = Outcomes(f) + 1

\* C12, the read: save() reads the lists only in a step taken when every
\* worker has finished, and writes what the lists hold.
C12_ReadOnlyAfterJoin ==
    report_file' # report_file =>
        /\ AllWorkersFinished
        /\ RunningTasks = {}
        /\ report_file' = Append(report_file, Rendered)

\* C12, afterwards: what was written is what the lists hold for good, with one
\* entry per add_* call of the workers (each task that recorded did so once).
C12_WrittenIsFinal ==
    Len(report_file) >= 1 =>
        /\ Last(report_file) = Rendered
        /\ TotalEntries = Cardinality({f \in epub_files : Outcomes(f) = 1})

\* C12: for every interleaving of the add_* calls of up to config.jobs
\* concurrent workers no update is lost (each list only ever gains the entry
\* that was added), and the lists are read for the report only after all
\* workers have finished.
C12_SafeRecording ==
    []C12_WrittenIsFinal /\ [][C12_NoLostUpdate /\ C12_ReadOnlyAfterJoin]_vars

\* C12 witness: two workers at once; the second one has recorded its failure
\* while the first one, which has failed once already, is in its second attempt.
C12_Witness ==
    /\ config.jobs = 2
    /\ pc[1] = "tool"
    /\ tool_calls[1] = 2
    /\ pc[2] = "returned"
    /\ EntriesFor(failed_conversions, 2) = 1

\* main() was started without --create-config and the tool is not on the PATH
\* or the root argument is no directory.
EnvironmentError ==
    /\ ~startup.create_config
    /\ ~(startup.tool_found /\ startup.is_dir)

\* No work of any kind has been done: nothing discovered, no task submitted,
\* no tool invocation, nothing recorded, nothing in quarantine, no report.
NoWorkDone ==
    /\ epub_files = {}
    /\ \A f \in Files : pc[f] = "none" /\ tool_calls[f] = 0
    /\ TotalEntries = 0
    /\ quarantine = << >>
    /\ ~quarantine_dir_exists
    /\ report_file = << >>

\* C13: when main() is started without --create-config and the tool is missing
\* or the root is no directory, all main() ever does is return 1: no discovery,
\* no task, no tool invocation, no file moved to quarantine, no report.
C13_EnvironmentErrorAborts ==
    EnvironmentError =>
        /\ pc_main \in {"start", "exited"}
        /\ pc_main = "exited" => exit_code = <<1>>
        /\ NoWorkDone

\* C13 witness: the tool is missing, the root is a directory with an EPUB in
\* it, and main() has returned 1.
C13_Witness ==
    /\ ~startup.create_config
    /\ ~startup.tool_found
    /\ startup.is_dir
    /\ \E f \in Files : orig_exists[f]
    /\ exit_code = <<1>>

\* C13, second witness: the tool is there, the root is no directory.
C13_WitnessNoDirectory ==
    /\ ~startup.create_config
    /\ startup.tool_found
    /\ ~startup.is_dir
    /\ exit_code = <<1>>

\* The exit code the interface promises for a start of main().
PromisedExitCode ==
    IF startup.create_config \/ (startup.tool_found /\ startup.is_dir)
    THEN <<0>>
    ELSE <<1>>

\* C14, restricted to the runs in which main() returns: it returns the promised
\* code, and with --create-config it has done no discovery and no conversion.
C14_ReturnedExitCode ==
    /\ pc_main = "exited" => exit_code = PromisedExitCode
    /\ pc_main # "exited" => exit_code = << >>
    /\ startup.create_config => NoWorkDone

\* C14: a run of main() that is over has returned 0 if the startup checks
\* passed, whatever the per-file outcomes were and also when no file was found,
\* 0 with --create-config (no discovery, no conversion), and 1 only when the
\* tool is missing or the root is no directory.
C14_ExitCodes ==
    /\ pc_main \in {"exited", "crashed"} => exit_code = PromisedExitCode
    /\ startup.create_config => NoWorkDone

\* The member names (of MemberNames) that carry "container.xml" in some case,
\* and those that carry ".opf" in some case, listed by hand.
WithManifestMarker == {ContainerName, UpperContainerName, BothMarkersName}

WithPackageMarker == {PackageName, LowerPackageName, BothMarkersName}

HasMemberOf(names, namelist) ==
    \E k \in 1..Len(namelist) : namelist[k] \in names

\* C15: a call of is_valid_epub returns (it never raises), and it returns
\* valid exactly for a file that opens as an archive and has a member with the
\* manifest marker and a member with the package marker, in whatever case;
\* otherwise the reason names the cause: not an archive, unreadable, missing
\* container.xml (also when .opf is missing too), missing .opf.
C15_Validator ==
    validation # << >> =>
        LET opens == epub_path.open = "zip"
            manifest == HasMemberOf(WithManifestMarker, epub_path.namelist)
            package == HasMemberOf(WithPackageMarker, epub_path.namelist)
        IN  /\ Len(validation) = 2
            /\ validation[1] = (opens /\ manifest /\ package)
            /\ validation[2] =
                    IF epub_path.open = "badzip" THEN "Invalid ZIP file"
                    ELSE IF ~opens THEN "Error checking EPUB"
                    ELSE IF ~manifest THEN "Missing container.xml"
                    ELSE IF ~package THEN "Missing .opf file"
                    ELSE ""

\* C15 witness: an archive whose only marked member is META-INF/CONTAINER.XML
\* was rejected for its missing .opf.
C15_Witness ==
    /\ epub_path.open = "zip"
    /\ epub_path.namelist = <<MimetypeName, UpperContainerName>>
    /\ validation = <<FALSE, "Missing .opf file">>

\* C15, second witness: an archive with neither marker was rejected for its
\* missing container.xml.
C15_WitnessNeither ==
    /\ epub_path.open = "zip"
    /\ epub_path.namelist = <<NearMissName>>
    /\ validation = <<FALSE, "Missing container.xml">>

\* C15, third witness: upper-case markers were accepted.
C15_WitnessValid ==
    /\ epub_path.namelist = <<UpperContainerName, PackageName>>
    /\ validation = <<TRUE, "">>

\* C16, the bound: the tool is never invoked more than max_retries times for
\* a task.
C16_BoundedInvocations ==
    \A f \in Files : tool_calls[f] <= config.max_retries

\* C16, what is left of it: under fair scheduling a run that reached
\* scheduling has all its tasks through and main() over, with the report
\* saved unless a move into quarantine raised.
C16_TerminatesSavedUnlessRaised ==
    (pc_main = "waiting") ~>
        /\ \A f \in epub_files : Finished(f)
        /\ \/ pc_main = "exited" /\ Len(report_file) = 1
           \/ pc_main = "crashed" /\ \E f \in epub_files : pc[f] = "raised"

\* C16: under fair scheduling, with every tool invocation and every sleep
\* returning, a run that reached scheduling has every task through
\* after at most max_retries invocations each, and its report saved.
C16_TerminatesAndSaves ==
    /\ []C16_BoundedInvocations
    /\ (pc_main = "waiting") ~>
            /\ \A f \in epub_files : Finished(f)
            /\ Len(report_file) = 1

\* f is a file the validator rejects whose PDF exists, with overwrite off: the
\* case in which the skip check, were it made, would skip.
InvalidWithPdf(f) ==
    /\ ~Valid(f)
    /\ pdf_exists[f]
    /\ ~config.force_overwrite

\* C17, at all times: such a file is never recorded as a success, skipped or
\* otherwise, and the tool is never invoked for it.
C17_NeverSuccess ==
    \A f \in epub_files :
        InvalidWithPdf(f) =>
            /\ EntriesFor(successful_conversions, f) = 0
            /\ tool_calls[f] = 0

\* C17, the steps: the step that takes up such a file (still at its path) adds
\* its entry to the corrupted list and goes on to the move; the step in which
\* its task returns leaves it in the quarantine directory.
C17_Steps ==
    \A f \in Files :
        /\ (pc[f] = "pending" /\ pc'[f] # "pending" /\ orig_exists[f]
                /\ InvalidWithPdf(f)) =>
            /\ pc'[f] = "move"
            /\ corrupted_files' =
                    corrupted_files (+) SetToBag({<<f, Verdict[content[f]][2]>>})
            /\ UNCHANGED <<successful_conversions, failed_conversions>>
        /\ (pc[f] = "move" /\ pc'[f] = "returned" /\ InvalidWithPdf(f)) =>
            /\ ~orig_exists'[f]
            /\ InQuarantine(f)'

\* C17: validation comes before the skip check: a file the validator rejects
\* is recorded as corrupted and moved to quarantine also when its PDF exists
\* and overwrite is off, and is never recorded as a (skipped) success.
C17_ValidationBeforeSkip == []C17_NeverSuccess /\ [][C17_Steps]_vars

\* C17 witness: a rejected file whose PDF exists, overwrite off, is in the
\* corrupted list and in quarantine.
C17_Witness ==
    \E f \in epub_files :
        /\ InvalidWithPdf(f)
        /\ pc[f] = "returned"
        /\ EntriesFor(corrupted_files, f) = 1
        /\ InQuarantine(f)
        /\ ~orig_exists[f]

FileNotFoundEntry(f) == <<f, <<"File not found", 0>>>>

\* C18, the step in which a worker takes up a file that is no longer at its
\* path: the task returns at once, "File not found" is added to the failed
\* list, and nothing else happens: no entry in the corrupted list (the
\* validator's verdict is not asked for), no tool invocation, nothing moved.
C18_TakeUpMissing ==
    \A f \in Files :
        (pc[f] = "pending" /\ pc'[f] # "pending" /\ ~orig_exists[f]) =>
            /\ pc'[f] = "returned"
            /\ failed_conversions' =
                    failed_conversions (+) SetToBag({FileNotFoundEntry(f)})
            /\ UNCHANGED <<corrupted_files, successful_conversions, tool_calls,
                           tool_result, quarantine, quarantine_dir_exists,
                           orig_exists>>

\* C18, at all times: a task recorded with "File not found" has this one
\* entry and no other, its tool was never invoked, its file is not in
\* quarantine.
C18_RecordedOnce ==
    \A f \in epub_files :
        BagIn(FileNotFoundEntry(f), failed_conversions) =>
            /\ pc[f] = "returned"
            /\ EntriesFor(failed_conversions, f) = 1
            /\ Outcomes(f) = 1
            /\ tool_calls[f] = 0
            /\ ~InQuarantine(f)
            /\ ~orig_exists[f]

\* C18: a discovered file that is gone when its worker starts on it is
\* recorded exactly once, in the failed list, as "File not found"; it is not
\* validated, the tool is not invoked for it, nothing is moved to quarantine.
C18_MissingFile == []C18_RecordedOnce /\ [][C18_TakeUpMissing]_vars

\* C18 witness: a file that the validator would have rejected was removed
\* after discovery and is recorded as not found.
C18_Witness ==
    \E f \in epub_files :
        /\ ~Valid(f)
        /\ ~orig_exists[f]
        /\ pc[f] = "returned"
        /\ BagIn(FileNotFoundEntry(f), failed_conversions)
        /\ corrupted_files = EmptyBag

\* The step is the one in which the task of g, a rejected file, completes its
\* move into quarantine.
OwnMove(g) ==
    /\ ~Valid(g)
    /\ pc[g] = "move"
    /\ pc'[g] = "returned"

\* C19, at all times: a file the validator accepts is never in the quarantine
\* directory, and once its task was taken up with the file in place the file
\* is at its original path, whatever the outcome.
C19_ValidUntouched ==
    \A f \in Files :
        Valid(f) =>
            /\ ~InQuarantine(f)
            /\ (/\ f \in epub_files
                /\ pc[f] \notin {"none", "pending"}
                /\ ~BagIn(FileNotFoundEntry(f), failed_conversions)) =>
                    orig_exists[f]

\* C19, every step of the program: no file's bytes change; a file leaves its
\* original path only in the step in which its own task, for a rejected file,
\* completes the move; and whatever newly lies at a path of the quarantine
\* directory is the file of the task that took the step. (Before submission,
\* with no worker running, a file may vanish from outside.)
C19_OnlyOwnMove ==
    /\ content' = content
    /\ \A g \in Files :
        (orig_exists[g] /\ ~orig_exists'[g]) =>
            (pc_main = "found" \/ OwnMove(g))
    /\ \A g \in Files : (~orig_exists[g] /\ orig_exists'[g]) => FALSE
    /\ \A p \in DOMAIN quarantine' :
        (p \notin DOMAIN quarantine \/ quarantine'[p] # quarantine[p]) =>
            OwnMove(quarantine'[p])

\* C19: the input file of a valid task is left as it is: never moved into
\* quarantine or away from its path, whatever the conversion outcome; a
\* worker moves the file of its own task only.
C19_InputUnchanged == []C19_ValidUntouched /\ [][C19_OnlyOwnMove]_vars

\* C19 witness: a valid file failed after two attempts and is still at its
\* path, while a rejected file of the same run went to quarantine.
C19_Witness ==
    \E f, g \in epub_files :
        /\ Valid(f)
        /\ pc[f] = "returned"
        /\ tool_result[f] = <<"nonzero", "nonzero">>
        /\ EntriesFor(failed_conversions, f) = 1
        /\ orig_exists[f]
        /\ InQuarantine(g)

====
